---- MODULE Spec2Model ----
(***************************************************************************)
(* manga-pipeline.py: one run of main() as a state machine.                *)
(*                                                                         *)
(* Directory names are sequences of one-character strings.  Python         *)
(* integers are unbounded, so integers that come out of a directory name   *)
(* are kept as decimal digit sequences (most significant digit first, no   *)
(* leading zero, zero is <<0>>); sys.maxsize is the 64-bit value.          *)
(***************************************************************************)
EXTENDS Integers, Sequences, FiniteSets, TLC

(***************************************************************************)
(* Bounds of the model.                                                    *)
(***************************************************************************)
\* largest number of entries the downloader leaves in the manga directory
MaxEntries == 3
\* largest --batch-size tried
MaxBatchSize == 3

(***************************************************************************)
(* Characters and the regular expression r"c(\d+(?:\.\d+)?)", re.I         *)
(***************************************************************************)
DigitChars == <<"0", "1", "2", "3", "4", "5", "6", "7", "8", "9">>

IsDigit(ch) == \E i \in 1..10 : DigitChars[i] = ch

DigitVal(ch) == (CHOOSE i \in 1..10 : DigitChars[i] = ch) - 1

\* str.lower() on the characters that occur in the model
LowerChar(ch) ==
    CASE ch = "C" -> "c"
      [] ch = "Y" -> "y"
      [] ch = "N" -> "n"
      [] OTHER -> ch

Lower(s) == [i \in 1..Len(s) |-> LowerChar(s[i])]

\* the literal c of the pattern under re.IGNORECASE
IsC(ch) == LowerChar(ch) = "c"

\* index of the last character of the greedy run \d* that starts at i
\* (i - 1 when name[i] is no digit)
RECURSIVE DigitRunEnd(_, _)
DigitRunEnd(name, i) ==
    IF i <= Len(name) /\ IsDigit(name[i]) THEN DigitRunEnd(name, i + 1) ELSE i - 1

\* the pattern tried at position i: group(1), or <<>> when it does not match
\* there (group(1) of a match is never empty)
PatternAt(name, i) ==
    IF i > Len(name) \/ ~IsC(name[i]) THEN <<>>
    ELSE LET e == DigitRunEnd(name, i + 1) IN
         IF e < i + 1 THEN <<>>
         ELSE IF e + 2 <= Len(name) /\ name[e + 1] = "." /\ IsDigit(name[e + 2])
              THEN SubSeq(name, i + 1, DigitRunEnd(name, e + 2))
              ELSE SubSeq(name, i + 1, e)

\* re.match(...): anchored at the start of the name
ReMatch(name) == PatternAt(name, 1)

\* re.search(...): the leftmost position where the pattern matches
ReSearch(name) ==
    IF \E i \in 1..Len(name) : PatternAt(name, i) # <<>>
    THEN LET first == CHOOSE i \in 1..Len(name) :
                          /\ PatternAt(name, i) # <<>>
                          /\ \A j \in 1..(i - 1) : PatternAt(name, j) = <<>>
         IN  PatternAt(name, first)
    ELSE <<>>

\* d.name.lower().startswith("c")
StartsWithC(name) == Len(name) >= 1 /\ Lower(name)[1] = "c"

(***************************************************************************)
(* Unbounded naturals as digit sequences                                   *)
(***************************************************************************)
\* drop leading zeros, keeping one digit for zero
StripZeros(d) ==
    IF \A i \in 1..Len(d) : d[i] = 0 THEN <<0>>
    ELSE LET first == CHOOSE i \in 1..Len(d) :
                          d[i] # 0 /\ \A j \in 1..(i - 1) : d[j] = 0
         IN  SubSeq(d, first, Len(d))

\* the characters of a numeral before the "."
IntPartChars(chars) ==
    IF \E i \in 1..Len(chars) : chars[i] = "."
    THEN SubSeq(chars, 1, (CHOOSE i \in 1..Len(chars) : chars[i] = ".") - 1)
    ELSE chars

NatOfChars(chars) == StripZeros([i \in 1..Len(chars) |-> DigitVal(chars[i])])

\* TRUE when the numeral has a fractional part with a non-zero digit
FracNonZero(chars) ==
    \E i \in 1..Len(chars) :
        /\ chars[i] \notin {"0", "."}
        /\ \E j \in 1..(i - 1) : chars[j] = "."

NatLess(a, b) ==
    \/ Len(a) < Len(b)
    \/ /\ Len(a) = Len(b)
       /\ \E i \in 1..Len(a) :
             /\ a[i] < b[i]
             /\ \A j \in 1..(i - 1) : a[j] = b[j]

NatLeq(a, b) == a = b \/ NatLess(a, b)

IsOdd(d) == d[Len(d)] % 2 = 1

\* d div 2 by long division: the remainder carried into digit i is d[i-1] % 2
Half(d) ==
    StripZeros([i \in 1..Len(d) |->
                   ((IF i > 1 THEN d[i - 1] % 2 ELSE 0) * 10 + d[i]) \div 2])

\* 2 * d: the carry into digit i is 1 exactly when d[i+1] >= 5
Double(d) ==
    LET ext == <<0>> \o d IN
    StripZeros([i \in 1..Len(ext) |->
                   (2 * ext[i] + (IF i < Len(ext) /\ ext[i + 1] >= 5 THEN 1 ELSE 0)) % 10])

\* d + 1: the carry reaches digit i exactly when every digit right of it is 9
Inc(d) ==
    LET ext == <<0>> \o d IN
    StripZeros([i \in 1..Len(ext) |->
                   IF \A j \in (i + 1)..Len(ext) : ext[j] = 9
                   THEN (ext[i] + 1) % 10
                   ELSE ext[i]])

RECURSIVE DoubleTimes(_, _)
DoubleTimes(d, e) == IF e = 0 THEN d ELSE DoubleTimes(Double(d), e - 1)

\* 2^53: a binary64 significand holds the naturals below it exactly
TwoPow53 == <<9, 0, 0, 7, 1, 9, 9, 2, 5, 4, 7, 4, 0, 9, 9, 2>>

\* sys.maxsize = 2^63 - 1
SysMaxsize == <<9, 2, 2, 3, 3, 7, 2, 0, 3, 6, 8, 5, 4, 7, 7, 5, 8, 0, 7>>

\* round-to-nearest-even of v * 2^e + (dropped bits) to a 53-bit significand:
\* guard is the last bit shifted out, sticky tells whether anything below it
\* was non-zero
RECURSIVE RoundToDouble(_, _, _, _)
RoundToDouble(v, guard, sticky, e) ==
    IF NatLeq(TwoPow53, v)
    THEN RoundToDouble(Half(v), IF IsOdd(v) THEN 1 ELSE 0, sticky \/ guard = 1, e + 1)
    ELSE LET up == guard = 1 /\ (sticky \/ IsOdd(v)) IN
         DoubleTimes(IF up THEN Inc(v) ELSE v, e)

\* int(float(numeral)) for a numeral \d+(\.\d+)?.  Below 2^53 the integer
\* part survives the conversion (every numeral of Names has at most 15
\* significant digits there); from 2^53 on the value is rounded to 53 bits
\* and the fraction only contributes to the sticky bit.
IntOfFloat(chars) ==
    LET ip == NatOfChars(IntPartChars(chars)) IN
    IF NatLess(ip, TwoPow53) THEN ip
    ELSE RoundToDouble(ip, 0, FracNonZero(chars), 0)

\* chapter_sort_key(dir_path), on dir_path.name
chapter_sort_key(name) ==
    IF ReMatch(name) # <<>> THEN IntOfFloat(ReMatch(name)) ELSE SysMaxsize

(***************************************************************************)
(* Inputs of a run                                                         *)
(***************************************************************************)
DEFAULT_CUSTOM_WIDTH == 1264
DEFAULT_CUSTOM_HEIGHT == 1680

manga_name == "manga"

Nines20 == [i \in 1..20 |-> "9"]

\* names the downloader may give the entries of the manga directory
Names ==
    { <<"c", "1">>, <<"c", "2">>, <<"C", "1">>, <<"c", "7", ".", "9">>,
      <<"c", "o", "v">>, <<"c", "c", "3">>, <<"c">> \o Nines20, <<"x", "1">> }

\* an entry of the manga directory: a directory, or a regular file
Entries ==
    [name : Names, is_dir : {TRUE}] \cup [name : {<<"c", "5">>}, is_dir : {FALSE}]

\* the manga directory as iterdir() lists it: entries with distinct names in
\* an order the platform chooses
Listings ==
    { l \in UNION { [1..n -> Entries] : n \in 0..MaxEntries } :
        \A i, j \in 1..Len(l) : i # j => l[i].name # l[j].name }

\* what the downloader left under DOWNLOAD_DIR: no weebcentral directory, a
\* weebcentral directory without a manga directory, or one manga directory
Layouts ==
    { [base |-> b, listing |-> <<>>] : b \in {"absent", "empty"} }
        \cup { [base |-> "manga", listing |-> l] : l \in Listings }

ArgsSet ==
    [ batch_size : (0..MaxBatchSize),
      custom_width : {0, DEFAULT_CUSTOM_WIDTH},
      custom_height : {0, DEFAULT_CUSTOM_HEIGHT} ]

\* what input() does at the confirmation prompt: a line, or EOFError
ConfirmInputs ==
    { [eof |-> TRUE, line |-> <<>>] }
        \cup { [eof |-> FALSE, line |-> l] :
                 l \in { <<"y">>, <<"Y">>, <<"n">>, <<"N">>, <<>>, <<"y", "e", "s">> } }

\* how an external command ends: exit 0, non-zero exit (CalledProcessError),
\* or it cannot be started (FileNotFoundError and the other OSErrors)
DownloadOutcomes == {"ok", "nonzero", "notfound"}
ConvertOutcomes == {"ok", "nonzero", "oserror"}

(***************************************************************************)
(* State                                                                   *)
(***************************************************************************)
VARIABLES
    pc,                       \* stage of main() about to run, "Done", "Exited"
    exit_code,                \* process exit code once pc is Done or Exited
    exit_at,                  \* stage in which the run ended
    uncaught,                 \* the run ended by an uncaught exception
    args,                     \* parsed command line
    DOWNLOAD_DIR,             \* ./manga_downloads exists
    EPUB_DIR,                 \* ./epubs exists
    confirm,                  \* <<what input() did>> at the prompt; not read
                              \* after line 149, emptied when Download starts
    base,                     \* state of DOWNLOAD_DIR/weebcentral
    manga_dir,                \* names of the entries now in the manga directory
    listing,                  \* the manga directory as the downloader left it
    batch_dirs,               \* batch folders that exist on disk
    batch_content,            \* <<batch folder, chapter name>> pairs on disk
    chapter_dirs,             \* sorted chapter names
    current_chapter_index,
    processed_batch_folders,  \* batch folder names, in creation order
    batch_groups,             \* per loop iteration: the indices it moved
    download_result,          \* "none" until the downloader has run
    downloader_calls,
    conv_index,               \* position of the conversion loop, from 0
    converter_calls,          \* convert_cmd of each converter invocation
    converter_results         \* outcome of each converter invocation

vars ==
    << pc, exit_code, exit_at, uncaught, args, DOWNLOAD_DIR, EPUB_DIR, confirm, base,
       manga_dir, listing, batch_dirs, batch_content, chapter_dirs,
       current_chapter_index,
       processed_batch_folders, batch_groups, download_result, downloader_calls,
       conv_index, converter_calls, converter_results >>

fsVars == << DOWNLOAD_DIR, EPUB_DIR, base, manga_dir, listing, batch_dirs, batch_content >>
loopVars == << chapter_dirs, current_chapter_index, processed_batch_folders, batch_groups >>
extVars == << confirm, download_result, downloader_calls, conv_index, converter_calls, converter_results >>

\* the stages in the order main() runs them; ConversionSetup is the part of
\* the conversion stage before its loop
Stages ==
    << "Preflight", "Cleanup", "Download", "Discovery", "Batching",
       "Conversion", "FinalCleanup", "Done" >>

StageOf(label) == IF label = "ConversionSetup" THEN "Conversion" ELSE label

StageIndex(label) == CHOOSE i \in 1..Len(Stages) : Stages[i] = StageOf(label)

Init ==
    /\ pc = "Preflight"
    /\ exit_code = 0
    /\ exit_at = "none"
    /\ uncaught = FALSE
    /\ args \in ArgsSet
    /\ DOWNLOAD_DIR \in BOOLEAN
    /\ EPUB_DIR \in BOOLEAN
    /\ confirm = <<>>
    /\ base = "absent"
    /\ manga_dir = {}
    /\ listing = <<>>
    /\ batch_dirs = {}
    /\ batch_content = {}
    /\ chapter_dirs = <<>>
    /\ current_chapter_index = 0
    /\ processed_batch_folders = <<>>
    /\ batch_groups = <<>>
    /\ download_result = "none"
    /\ downloader_calls = 0
    /\ conv_index = 0
    /\ converter_calls = <<>>
    /\ converter_results = <<>>

\* sys.exit(code) at the current stage
SysExit(code) ==
    /\ pc' = "Exited"
    /\ exit_code' = code
    /\ exit_at' = pc
    /\ uncaught' = FALSE

\* an exception nobody catches: traceback, exit code 1
Traceback ==
    /\ pc' = "Exited"
    /\ exit_code' = 1
    /\ exit_at' = pc
    /\ uncaught' = TRUE

Goto(stage) ==
    /\ pc' = stage
    /\ UNCHANGED << exit_code, exit_at, uncaught >>

(***************************************************************************)
(* Preflight: lines 112-137                                                *)
(***************************************************************************)
\* kcc_is_file, gallery_dl and wine_cmd are what args.kcc.is_file() and
\* command_exists() answer; wine is args.wine, which apart from this check
\* only puts "wine" in front of the converter command
PreflightOk(wine, kcc_is_file, gallery_dl, wine_cmd) ==
    /\ ~(args.batch_size <= 0)
    /\ ~(args.custom_width <= 0)
    /\ ~(args.custom_height <= 0)
    /\ kcc_is_file
    /\ gallery_dl
    /\ ~(wine /\ ~wine_cmd)

Preflight ==
    /\ pc = "Preflight"
    /\ \E wine, kcc_is_file, gallery_dl, wine_cmd \in BOOLEAN :
          IF PreflightOk(wine, kcc_is_file, gallery_dl, wine_cmd)
          THEN Goto("Cleanup")
          ELSE SysExit(1)
    /\ UNCHANGED << args, fsVars, loopVars, extVars >>

(***************************************************************************)
(* Cleanup: lines 139-163                                                  *)
(***************************************************************************)
\* variant: any answer that begins with y counts as consent
ConfirmOutcome_Prefix(inp) ==
    IF inp.eof THEN "exit1"
    ELSE IF inp.line # <<>> /\ Lower(inp.line)[1] = "y" THEN "remove" ELSE "exit0"

\* what the answer to the confirmation prompt leads to
ConfirmOutcome(inp) ==
    IF inp.eof THEN "exit1"
    ELSE IF Lower(inp.line) = <<"y">> THEN "remove" ELSE "exit0"

\* variant: the stale download root is left alone
StaleDownloadDirRemoved_Kept(exists) == exists

\* DOWNLOAD_DIR after `if DOWNLOAD_DIR.exists(): shutil.rmtree(DOWNLOAD_DIR)`
StaleDownloadDirRemoved(exists) == FALSE

Cleanup ==
    /\ pc = "Cleanup"
    /\ DOWNLOAD_DIR' = StaleDownloadDirRemoved(DOWNLOAD_DIR)
    /\ IF EPUB_DIR
       THEN \E inp \in ConfirmInputs :
               /\ confirm' = <<inp>>
               /\ CASE ConfirmOutcome(inp) = "remove" ->
                          EPUB_DIR' = FALSE /\ Goto("Download")
                    [] ConfirmOutcome(inp) = "exit0" ->
                          EPUB_DIR' = EPUB_DIR /\ SysExit(0)
                    [] OTHER ->
                          EPUB_DIR' = EPUB_DIR /\ SysExit(1)
       ELSE EPUB_DIR' = EPUB_DIR /\ confirm' = confirm /\ Goto("Download")
    /\ UNCHANGED << args, base, manga_dir, listing, batch_dirs, batch_content,
                    loopVars, download_result, downloader_calls, conv_index,
                    converter_calls, converter_results >>

(***************************************************************************)
(* Download: lines 165-187 and run_command, lines 32-47                    *)
(***************************************************************************)
\* variant: subprocess.run without check=True, a non-zero exit goes unnoticed
RunCommandExits_NoCheck(result) == result = "notfound"

\* run_command ends the process with sys.exit(1) on FileNotFoundError and on
\* CalledProcessError
RunCommandExits(result) == result # "ok"

EntryNames(l) == { l[i].name : i \in 1..Len(l) }

Download ==
    /\ pc = "Download"
    /\ DOWNLOAD_DIR' = TRUE
    /\ \E result \in DownloadOutcomes, layout \in Layouts :
          \* a downloader that could not be started has written nothing
          /\ result = "notfound" => layout.base = "absent"
          /\ download_result' = result
          /\ downloader_calls' = downloader_calls + 1
          /\ base' = layout.base
          /\ listing' = layout.listing
          /\ manga_dir' = EntryNames(layout.listing)
          /\ IF RunCommandExits(result) THEN SysExit(1) ELSE Goto("Discovery")
    /\ confirm' = <<>>
    /\ UNCHANGED << args, EPUB_DIR, batch_dirs, batch_content, loopVars,
                    conv_index, converter_calls, converter_results >>

(***************************************************************************)
(* Discovery and ordering: lines 189-226                                   *)
(***************************************************************************)
\* the filter of lines 213-214
IsChapterDir(entry) == entry.is_dir /\ StartsWithC(entry.name)

RECURSIVE FilterChapters(_)
FilterChapters(l) ==
    IF l = <<>> THEN <<>>
    ELSE (IF IsChapterDir(Head(l)) THEN <<Head(l).name>> ELSE <<>>)
             \o FilterChapters(Tail(l))

\* sorted(..., key=chapter_sort_key) is stable: a name goes behind every name
\* whose key is not larger
RECURSIVE InsertByKey(_, _)
InsertByKey(sorted, name) ==
    IF sorted = <<>> THEN <<name>>
    ELSE IF NatLess(chapter_sort_key(name), chapter_sort_key(Head(sorted)))
         THEN <<name>> \o sorted
         ELSE <<Head(sorted)>> \o InsertByKey(Tail(sorted), name)

RECURSIVE SortByKey(_)
SortByKey(l) ==
    IF l = <<>> THEN <<>>
    ELSE InsertByKey(SortByKey(SubSeq(l, 1, Len(l) - 1)), l[Len(l)])

DiscoverChapters(l) == SortByKey(FilterChapters(l))

Discovery ==
    /\ pc = "Discovery"
    /\ IF base # "manga"
       THEN SysExit(1) /\ UNCHANGED chapter_dirs
       ELSE /\ chapter_dirs' = DiscoverChapters(listing)
            /\ IF Len(chapter_dirs') = 0 THEN SysExit(0) ELSE Goto("Batching")
    \* lines 228-229 (the values they already have)
    /\ current_chapter_index' = 0
    /\ processed_batch_folders' = <<>>
    /\ UNCHANGED << args, fsVars, batch_groups, extVars >>

(***************************************************************************)
(* Batching: the while loop of lines 231-254                               *)
(***************************************************************************)
Min(a, b) == IF a <= b THEN a ELSE b

\* end_index of the group that starts at index (indices from 0)
EndIndex(index, batch_size, total) == Min(index + batch_size - 1, total - 1)

\* variant: the loop stops one chapter early
WhileCondition_OffByOne(index, total) == index + 1 < total

\* the condition of the while loop
WhileCondition(index, total) == index < total

\* re.search(...).group(1): <<>> stands for the None that makes .group raise
ExtractNumber(name) == ReSearch(name)

\* manga_name_dir / f"{manga_name}_{start_num}_{end_num}": the numerals hold
\* no "_", so the triple determines the file name and the file name the triple
BatchFolderName(start_num, end_num) == << manga_name, start_num, end_num >>

\* one iteration of the loop
BatchStep ==
    /\ pc = "Batching"
    /\ LET total == Len(chapter_dirs)
           start_index == current_chapter_index
           end_index == EndIndex(current_chapter_index, args.batch_size, total)
           start_num == ExtractNumber(chapter_dirs[start_index + 1])
           end_num == ExtractNumber(chapter_dirs[end_index + 1])
           folder == BatchFolderName(start_num, end_num)
           moved == { chapter_dirs[i + 1] : i \in start_index..end_index }
       IN  IF start_num = <<>> \/ end_num = <<>>
           THEN \* AttributeError: 'NoneType' object has no attribute 'group'
                /\ Traceback
                /\ UNCHANGED << manga_dir, batch_dirs, batch_content, loopVars >>
           ELSE /\ batch_dirs' = batch_dirs \cup {folder}
                /\ processed_batch_folders' = Append(processed_batch_folders, folder)
                /\ batch_groups' = Append(batch_groups, start_index..end_index)
                /\ manga_dir' = manga_dir \ moved
                /\ batch_content' = batch_content \cup { <<folder, n>> : n \in moved }
                /\ current_chapter_index' = end_index + 1
                /\ UNCHANGED chapter_dirs
                /\ IF WhileCondition(current_chapter_index', total)
                   THEN Goto("Batching")
                   ELSE Goto("ConversionSetup")
    /\ UNCHANGED << args, DOWNLOAD_DIR, EPUB_DIR, base, listing, extVars >>

(***************************************************************************)
(* Conversion: lines 258-314                                               *)
(***************************************************************************)
ConversionSetup ==
    /\ pc = "ConversionSetup"
    /\ EPUB_DIR' = TRUE
    /\ IF processed_batch_folders = <<>> THEN SysExit(0) ELSE Goto("Conversion")
    /\ UNCHANGED << args, DOWNLOAD_DIR, base, manga_dir, listing, batch_dirs,
                    batch_content, loopVars, extVars >>

\* lines 294-312 catch CalledProcessError only: a converter that exits
\* non-zero is a warning, one that cannot be started is an uncaught OSError
ConverterFailureCaught(outcome) == outcome = "nonzero"

\* convert_cmd, reduced to what changes from one batch to the next
ConvertCmd(folder) == [folder |-> folder]

\* one iteration of the for loop
ConvertStep ==
    /\ pc = "Conversion"
    /\ conv_index < Len(processed_batch_folders)
    /\ LET folder == processed_batch_folders[conv_index + 1]
           last == conv_index + 1 = Len(processed_batch_folders)
       IN  IF folder \in batch_dirs
           THEN \E outcome \in ConvertOutcomes :
                   /\ converter_calls' = Append(converter_calls, ConvertCmd(folder))
                   /\ converter_results' = Append(converter_results, outcome)
                   /\ IF outcome = "ok" \/ ConverterFailureCaught(outcome)
                      THEN /\ conv_index' = conv_index + 1
                           /\ Goto(IF last THEN "FinalCleanup" ELSE "Conversion")
                      ELSE /\ conv_index' = conv_index
                           /\ Traceback
           ELSE /\ conv_index' = conv_index + 1
                /\ Goto(IF last THEN "FinalCleanup" ELSE "Conversion")
                /\ UNCHANGED << converter_calls, converter_results >>
    /\ UNCHANGED << args, fsVars, loopVars, confirm, download_result,
                    downloader_calls >>

(***************************************************************************)
(* Final cleanup: lines 316-321                                            *)
(***************************************************************************)
FinalCleanup ==
    /\ pc = "FinalCleanup"
    \* shutil.rmtree(DOWNLOAD_DIR) takes everything under it along
    /\ DOWNLOAD_DIR' = FALSE
    /\ base' = "absent"
    /\ manga_dir' = {}
    /\ listing' = <<>>
    /\ batch_dirs' = {}
    /\ batch_content' = {}
    /\ pc' = "Done"
    /\ exit_code' = 0
    /\ exit_at' = "Done"
    /\ UNCHANGED << uncaught, args, EPUB_DIR, loopVars, extVars >>

Next ==
    \/ Preflight
    \/ Cleanup
    \/ Download
    \/ Discovery
    \/ BatchStep
    \/ ConversionSetup
    \/ ConvertStep
    \/ FinalCleanup

Spec == Init /\ [][Next]_vars

\* the run has ended
Terminated == pc \in {"Done", "Exited"}

(***************************************************************************)
(* Properties                                                              *)
(***************************************************************************)
Failed(outcome) == outcome \in {"nonzero", "oserror"}

Range(f) == { f[i] : i \in DOMAIN f }

SetMin(S) == CHOOSE x \in S : \A y \in S : x <= y

SetMax(S) == CHOOSE x \in S : \A y \in S : y <= x

\* the run is in, or ended in, a stage after the batching loop
BatchingCompleted ==
    \/ pc \in {"ConversionSetup", "Conversion", "FinalCleanup", "Done"}
    \/ pc = "Exited" /\ exit_at \in {"ConversionSetup", "Conversion"}

\* the batching loop has stopped, normally or not
BatchingEnded ==
    \/ BatchingCompleted
    \/ pc = "Exited" /\ exit_at = "Batching"

\* the batch folders are still on disk
BatchesOnDisk == pc \in {"ConversionSetup", "Conversion", "FinalCleanup"}

\* C1: once a converter invocation has failed (non-zero exit, or the command
\* could not be started), the run still ends with the converter invoked for
\* every batch of the list, the download root removed and exit code 0.
C1_ConverterFailureIsolated ==
    (Terminated /\ \E i \in DOMAIN converter_results : Failed(converter_results[i]))
        => /\ pc = "Done"
           /\ exit_code = 0
           /\ ~DOWNLOAD_DIR
           /\ Len(converter_calls) = Len(processed_batch_folders)

\* C2: a downloader that exits non-zero or cannot be started ends the run at
\* once with exit code 1: no discovery, no move, no batch folder, no
\* converter invocation and no output root afterwards.
C2_DownloadFailureFatal ==
    download_result \in {"nonzero", "notfound"}
        => /\ pc = "Exited"
           /\ exit_at = "Download"
           /\ exit_code = 1
           /\ chapter_dirs = <<>>
           /\ manga_dir = EntryNames(listing)
           /\ batch_dirs = {}
           /\ batch_content = {}
           /\ processed_batch_folders = <<>>
           /\ converter_calls = <<>>
           /\ ~EPUB_DIR

\* a failed download that left chapter directories behind, none of them moved
C2_Witness ==
    /\ pc = "Exited"
    /\ download_result = "nonzero"
    /\ \E i \in DOMAIN listing : IsChapterDir(listing[i])

CeilDiv(n, b) == (n + b - 1) \div b

\* C3: for N >= 1 chapters and batch size B >= 1 the loop ends after forming
\* exactly ceil(N/B) groups, group k being the indices k*B .. min((k+1)*B, N) - 1.
C3_ExactPartition ==
    (BatchingEnded /\ Len(chapter_dirs) >= 1)
        => LET N == Len(chapter_dirs)
               B == args.batch_size
           IN  /\ Len(batch_groups) = CeilDiv(N, B)
               /\ \A k \in 0..(Len(batch_groups) - 1) :
                     batch_groups[k + 1] = (k * B)..(Min((k + 1) * B, N) - 1)
               /\ \A i \in 0..(N - 1) :
                     Cardinality({ k \in DOMAIN batch_groups : i \in batch_groups[k] }) = 1

\* the answer given at the prompt is a decline: anything but y or Y
Declined == confirm # <<>> /\ ~confirm[1].eof /\ confirm[1].line \notin {<<"y">>, <<"Y">>}

Unanswerable == confirm # <<>> /\ confirm[1].eof

\* C4: with the output root present at Cleanup, a decline ends the run with
\* exit code 0 and an unanswerable prompt with exit code 1; either way the
\* output root stays and neither downloader nor converter is invoked.
C4_DeclineOrNoInput ==
    /\ (Declined \/ Unanswerable)
          => /\ pc = "Exited"
             /\ exit_at = "Cleanup"
             /\ EPUB_DIR
             /\ downloader_calls = 0
             /\ converter_calls = <<>>
    /\ Declined => exit_code = 0
    /\ Unanswerable => exit_code = 1

\* the prompt was answered with something that is not y or Y, here "yes"
C4_Witness ==
    /\ pc = "Exited"
    /\ confirm = << [eof |-> FALSE, line |-> <<"y", "e", "s">>] >>

\* C5 as stated: in every terminal state of a run that passed Preflight the
\* download root no longer exists.
C5_WipedInEveryTerminalState ==
    (Terminated /\ exit_at # "Preflight") => ~DOWNLOAD_DIR

\* C5, amended: the download root is gone when Cleanup has run (whatever a
\* previous run left) and in the terminal states of a run that ended at the
\* Cleanup prompt or completed FinalCleanup; a run that ends in Download,
\* Discovery, Batching or Conversion leaves it on disk.
C5_WipedAtStartAndFinalCleanup ==
    /\ pc = "Download" => ~DOWNLOAD_DIR
    /\ (pc = "Exited" /\ exit_at = "Cleanup") => ~DOWNLOAD_DIR
    /\ pc = "Done" => ~DOWNLOAD_DIR
    /\ (pc = "Exited" /\ exit_at \notin {"Preflight", "Cleanup"}) => DOWNLOAD_DIR

\* a successful run whose converter ran, the download root removed at its end
C5_Witness ==
    /\ pc = "Done"
    /\ converter_calls # <<>>
    /\ ~DOWNLOAD_DIR

Matches(name) == ReMatch(name) # <<>>

\* the integer part of the numeral the parser's pattern finds in the name
NumeralIntPart(name) == NatOfChars(IntPartChars(ReMatch(name)))

\* C6: the key of a matching name is the integer part of its numeral, the key
\* of any other name is the sentinel, and in the discovered list every
\* non-matching name comes after every matching name.
C6_KeyAndOrder ==
    /\ \A i \in DOMAIN chapter_dirs :
          chapter_sort_key(chapter_dirs[i]) =
              IF Matches(chapter_dirs[i]) THEN NumeralIntPart(chapter_dirs[i])
              ELSE SysMaxsize
    /\ \A i, j \in DOMAIN chapter_dirs :
          (Matches(chapter_dirs[i]) /\ ~Matches(chapter_dirs[j])) => i < j

\* C7: batch folder k is named after the numerals that the parser's pattern
\* finds in the first and last chapter name of group k, and the integer part
\* of each numeral is that chapter's sort key.
C7_FolderNameFromKeyPattern ==
    \A k \in DOMAIN processed_batch_folders :
        LET first == chapter_dirs[SetMin(batch_groups[k]) + 1]
            last == chapter_dirs[SetMax(batch_groups[k]) + 1]
        IN  /\ processed_batch_folders[k] = BatchFolderName(ReMatch(first), ReMatch(last))
            /\ NumeralIntPart(first) = chapter_sort_key(first)
            /\ NumeralIntPart(last) = chapter_sort_key(last)

ChaptersIn(folder) == { n \in Range(chapter_dirs) : <<folder, n>> \in batch_content }

\* C8: after Batching every batch directory holds 1 to batch_size chapters, no
\* chapter is in two of them, every discovered chapter is in one and none is
\* left in the manga directory, and the list of batch folders has no duplicates.
C8_BatchInvariantOnDisk ==
    (BatchesOnDisk /\ BatchingCompleted)
        => /\ \A f \in batch_dirs :
                 /\ Cardinality(ChaptersIn(f)) >= 1
                 /\ Cardinality(ChaptersIn(f)) <= args.batch_size
           /\ \A n \in Range(chapter_dirs) :
                 /\ Cardinality({ f \in batch_dirs : <<f, n>> \in batch_content }) = 1
                 /\ n \notin manga_dir
           /\ \A i, j \in DOMAIN processed_batch_folders :
                 i # j => processed_batch_folders[i] # processed_batch_folders[j]

\* every discovered chapter sits in some batch folder
AllChaptersMoved ==
    \A n \in Range(chapter_dirs) :
        n \notin manga_dir /\ \E f \in batch_dirs : <<f, n>> \in batch_content

C9_StateOrder ==
    /\ downloader_calls <= 1
    /\ batch_content # {} => download_result = "ok"
    /\ Len(converter_calls) <= Len(processed_batch_folders)
    /\ \A i \in DOMAIN converter_calls :
          converter_calls[i].folder = processed_batch_folders[i]
    /\ pc = "Done" => Len(converter_calls) = Len(processed_batch_folders)

C9_StepOrder ==
    \* a stage is followed by itself, by the next one, or by the end of the run
    /\ pc \notin {"Done", "Exited"}
    /\ \/ pc' = "Exited"
       \/ StageIndex(pc') \in {StageIndex(pc), StageIndex(pc) + 1}
    \* chapters move only after a successful download
    /\ batch_content' # batch_content => download_result = "ok"
    \* the converter starts only with every chapter in its batch folder, and
    \* one invocation at a time
    /\ converter_calls' # converter_calls
          => /\ AllChaptersMoved
             /\ Len(converter_calls') = Len(converter_calls) + 1
             /\ SubSeq(converter_calls', 1, Len(converter_calls)) = converter_calls
    \* the download root goes only after the last converter invocation
    /\ pc' = "Done"
          => /\ Len(converter_calls) = Len(processed_batch_folders)
             /\ converter_calls' = converter_calls

C10_ExtractionNeverFails ==
    /\ ~(pc = "Exited" /\ exit_at = "Batching")
    /\ BatchingEnded => \A i \in DOMAIN chapter_dirs : ExtractNumber(chapter_dirs[i]) # <<>>

====
